---- MODULE Spec2Model ----
(***************************************************************************)
(* Last Mile Delivery Dashboard (src/app.py): a Streamlit script that is   *)
(* re-executed top to bottom on every interaction.  One run loads the CSV  *)
(* (memoized by st.cache_data), coerces three columns to numbers, drops    *)
(* rows with missing crucial fields, derives Is_Late, applies the two      *)
(* sidebar filters and computes the metrics, the charts' data and the map  *)
(* data.  The state below is the process-wide cache, the file on disk, the *)
(* session's widget state and the script's variables in the current run.   *)
(***************************************************************************)
EXTENDS Integers, Sequences, FiniteSets, TLC

\* ------------------------------------------------------------- bounds
\* Longest CSV (data rows) drawn from SmallPool.
MaxRows == 2
\* pd.read_csv calls counted before the model stops reading.
MaxReads == 2

\* ---------------------------------------------------------- constants
LATE_THRESHOLD == 120

Cols ==
  {"Order_ID", "Delivery_Time", "Agent_Rating", "Agent_Age", "Weather", "Traffic",
   "Vehicle", "Area", "Category", "Store_Latitude", "Store_Longitude"}

\* The columns of the three pd.to_numeric calls.
NumericCols == <<"Delivery_Time", "Agent_Rating", "Agent_Age">>

\* subset= of df.dropna.
RequiredCols == {"Delivery_Time", "Weather", "Traffic", "Vehicle", "Area"}

\* -------------------------------------------------------------- cells
\* A cell of a DataFrame: NaN, a string (object dtype), a number or a bool.
NaN == [k |-> "nan", s |-> "", n |-> 0]

Str(x) == [k |-> "str", s |-> x, n |-> 0]

Num(v) == [k |-> "num", s |-> "", n |-> v]

Bool(b) == [k |-> "bool", s |-> "", n |-> IF b THEN 1 ELSE 0]

IsNa(c) == c.k = "nan"

\* Strings pd.read_csv reads as NaN (its default na_values met in the model).
NaStrings == {"", "N/A", "NA", "NaN", "null"}

\* The numeric literals of the model's CSV texts and the number each parses to.
NumText ==
  "90" :> 90 @@ "120" :> 120 @@ "130" :> 130 @@ "4" :> 4 @@ "5" :> 5 @@
  "30" :> 30 @@ "12" :> 12 @@ "77" :> 77

IsNumText(s) == s \in DOMAIN NumText

\* ------------------------------------------------------------ read_csv
\* dtype inference: a column whose non-NA fields all parse is numeric, any
\* other column keeps its fields as strings.
ColumnIsNumeric(file, c) ==
  \A i \in 1..Len(file) : file[i][c] \in NaStrings \/ IsNumText(file[i][c])

ParseCell(file, c, s) ==
  IF s \in NaStrings THEN NaN
  ELSE IF ColumnIsNumeric(file, c) THEN Num(NumText[s])
  ELSE Str(s)

ReadCsv(file) ==
  [i \in 1..Len(file) |-> [c \in Cols |-> ParseCell(file, c, file[i][c])]]

\* ---------------------------------------------------------- to_numeric
\* pd.to_numeric(errors='coerce') on one cell: numbers stay, numeric text is
\* parsed, anything else becomes NaN.
ToNumeric(cell) ==
  IF cell.k = "num" THEN cell
  ELSE IF cell.k = "str" /\ IsNumText(cell.s) THEN Num(NumText[cell.s])
  ELSE NaN

CoerceColumn(t, c) ==
  [i \in 1..Len(t) |-> [t[i] EXCEPT ![c] = ToNumeric(@)]]

CoerceNumeric(t) ==
  CoerceColumn(CoerceColumn(CoerceColumn(t, NumericCols[1]), NumericCols[2]),
               NumericCols[3])

\* -------------------------------------------------------------- dropna
DropNaLax(t, subset) ==
  LET Present(r) == \E c \in subset : ~IsNa(r[c])
  IN  SelectSeq(t, Present)

\* DataFrame.dropna(subset=...): how='any', the rows keep their order.
DropNa(t, subset) ==
  LET Present(r) == \A c \in subset : ~IsNa(r[c])
  IN  SelectSeq(t, Present)

\* ------------------------------------------------------------- Is_Late
\* Series > n: False on NaN.
Gt(cell, n) == cell.k = "num" /\ cell.n > n

AddIsLateGe(t) ==
  [i \in 1..Len(t) |->
     [c \in Cols \cup {"Is_Late"} |->
        IF c = "Is_Late"
        THEN Bool(Gt(t[i]["Delivery_Time"], LATE_THRESHOLD - 1))
        ELSE t[i][c]]]

\* df_clean['Is_Late'] = df_clean['Delivery_Time'] > LATE_THRESHOLD
AddIsLate(t) ==
  [i \in 1..Len(t) |->
     [c \in Cols \cup {"Is_Late"} |->
        IF c = "Is_Late"
        THEN Bool(Gt(t[i]["Delivery_Time"], LATE_THRESHOLD))
        ELSE t[i][c]]]

\* ------------------------------------------------------ sidebar filters
\* Every category string of the model, in the order sorted() gives.
Alphabet ==
  <<"Bike", "Food", "Low", "Rural", "Stormy", "Sunny", "Toys", "Urban", "Van">>

\* Series.unique() on a column dropna left without NaN.
Unique(t, c) == {t[i][c].s : i \in 1..Len(t)}

Sorted(S) ==
  LET In(x) == x \in S
  IN  SelectSeq(Alphabet, In)

Elems(q) == {q[i] : i \in 1..Len(q)}

\* Series.isin(values)
IsIn(cell, values) == cell.k = "str" /\ cell.s \in values

Where(t, c, values) ==
  LET Keep(r) == IsIn(r[c], values)
  IN  SelectSeq(t, Keep)

ApplyFiltersStrict(clean, sel_area, sel_vehicle) ==
  Where(Where(clean, "Area", sel_area), "Vehicle", sel_vehicle)

\* if selected_area: ... else: ...; if selected_vehicle: ...
ApplyFilters(clean, sel_area, sel_vehicle) ==
  LET byArea == IF sel_area # {} THEN Where(clean, "Area", sel_area) ELSE clean
  IN  IF sel_vehicle # {} THEN Where(byArea, "Vehicle", sel_vehicle) ELSE byArea

\* ------------------------------------------------------------ floats
\* A float the script computes: NaN or the exact quotient num/den (den > 0).
FNaN == [k |-> "nan", num |-> 0, den |-> 1]

Rat(a, b) == [k |-> "rat", num |-> a, den |-> b]

\* numpy true division of a non-negative integer: 0/0 is nan and x/0 is inf
\* (a RuntimeWarning, never an exception); inf is kept as nan's neighbour "inf".
Divide(a, b) ==
  IF b # 0 THEN Rat(a, b)
  ELSE IF a = 0 THEN FNaN
  ELSE [k |-> "inf", num |-> 0, den |-> 1]

Times100(v) == IF v.k = "rat" THEN Rat(100 * v.num, v.den) ELSE v

RECURSIVE SumFrom(_, _, _)
\* Series.sum(): NaN is skipped, True counts 1.
SumFrom(t, c, i) ==
  IF i > Len(t) THEN 0
  ELSE (IF IsNa(t[i][c]) THEN 0 ELSE t[i][c].n) + SumFrom(t, c, i + 1)

RECURSIVE CountFrom(_, _, _)
\* Series.count(): the cells that are not NaN.
CountFrom(t, c, i) ==
  IF i > Len(t) THEN 0
  ELSE (IF IsNa(t[i][c]) THEN 0 ELSE 1) + CountFrom(t, c, i + 1)

\* Series.mean(): skipna, nan on no value.
Mean(t, c) ==
  IF CountFrom(t, c, 1) = 0 THEN FNaN
  ELSE Rat(SumFrom(t, c, 1), CountFrom(t, c, 1))

LatePercentageUnguarded(t) ==
  Times100(Divide(SumFrom(t, "Is_Late", 1), Len(t)))

\* (df_filtered['Is_Late'].sum() / total_orders) * 100 if total_orders > 0 else 0
LatePercentage(t) ==
  IF Len(t) > 0 THEN Times100(Divide(SumFrom(t, "Is_Late", 1), Len(t)))
  ELSE Rat(0, 1)

\* round-half-even of a/b for a >= 0, b > 0
RoundHalfEven(a, b) ==
  LET q == a \div b
      r == a % b
  IN  IF 2 * r > b THEN q + 1
      ELSE IF 2 * r < b THEN q
      ELSE IF q % 2 = 0 THEN q ELSE q + 1

\* f"{x:.1f}": "nan", "inf", or the value rounded to tenths.
Format1(v) ==
  IF v.k = "rat"
  THEN [text |-> "number", tenths |-> RoundHalfEven(10 * v.num, v.den)]
  ELSE [text |-> v.k, tenths |-> 0]

NoMetrics ==
  [total_orders |-> -1, avg_delivery_time |-> FNaN, avg_rating |-> FNaN,
   late_percentage |-> FNaN, shown |-> <<>>]

\* total_orders .. late_percentage; shown holds the three formatted strings of
\* col2..col4 (col1 shows total_orders as it is).
TopLevelMetrics(t) ==
  LET avg_delivery_time == Mean(t, "Delivery_Time")
      avg_rating == Mean(t, "Agent_Rating")
      late_percentage == LatePercentage(t)
  IN  [total_orders |-> Len(t),
       avg_delivery_time |-> avg_delivery_time,
       avg_rating |-> avg_rating,
       late_percentage |-> late_percentage,
       shown |-> <<[value |-> Format1(avg_delivery_time), unit |-> " min"],
                   [value |-> Format1(avg_rating), unit |-> " / 5.0"],
                   [value |-> Format1(late_percentage), unit |-> "%"]>>]

\* -------------------------------------------------------------- charts
\* Chart 1: groupby('Weather')['Delivery_Time'].mean().reset_index(): one row
\* per Weather value, sorted by key.
WeatherImpact(t) ==
  LET keys == Sorted(Unique(t, "Weather"))
  IN  [j \in 1..Len(keys) |->
         [Weather |-> keys[j],
          Delivery_Time |-> Mean(Where(t, "Weather", {keys[j]}), "Delivery_Time")]]

\* The label the pie trace gives a row: NaN is serialised as null and labelled "null".
PieLabel(cell) == IF IsNa(cell) THEN "null" ELSE cell.s

PieSlicesDropNa(t) ==
  [l \in {t[i]["Category"].s : i \in {j \in 1..Len(t) : ~IsNa(t[j]["Category"])}} |->
     Cardinality({i \in 1..Len(t) : t[i]["Category"] = Str(l)})]

\* Chart 2: px.pie(df_filtered, names='Category'): every row is handed to the
\* trace, which counts 1 per row under the row's label.
PieSlices(t) ==
  [l \in {PieLabel(t[i]["Category"]) : i \in 1..Len(t)} |->
     Cardinality({i \in 1..Len(t) : PieLabel(t[i]["Category"]) = l})]

\* Chart 3: px.histogram(df_filtered, x="Delivery_Time", nbins=30): the x sample.
HistogramX(t) == [i \in 1..Len(t) |-> t[i]["Delivery_Time"].n]

ScatterPoint(r) ==
  [Agent_Age |-> r["Agent_Age"].n, Agent_Rating |-> r["Agent_Rating"].n,
   Vehicle |-> r["Vehicle"].s, Delivery_Time |-> r["Delivery_Time"].n,
   Order_ID |-> r["Order_ID"].s]

ScatterPointsEither(t) ==
  LET Drawn(r) == ~IsNa(r["Agent_Age"]) \/ ~IsNa(r["Agent_Rating"])
      rows == SelectSeq(t, Drawn)
  IN  [i \in 1..Len(rows) |-> ScatterPoint(rows[i])]

\* Chart 4: px.scatter(df_filtered, x="Agent_Age", y="Agent_Rating", ...): a
\* marker is drawn for a row whose x and y are both numbers.
ScatterPoints(t) ==
  LET Drawn(r) == ~IsNa(r["Agent_Age"]) /\ ~IsNa(r["Agent_Rating"])
      rows == SelectSeq(t, Drawn)
  IN  [i \in 1..Len(rows) |-> ScatterPoint(rows[i])]

LatLon(t) ==
  [i \in 1..Len(t) |-> [lat |-> t[i]["Store_Latitude"], lon |-> t[i]["Store_Longitude"]]]

MapDataLax(t) == DropNaLax(LatLon(t), {"lat", "lon"})

\* Chart 5: df_filtered[[lat, lon]].rename(...).dropna()
MapData(t) == DropNa(LatLon(t), {"lat", "lon"})

\* ---------------------------------------------------------- CSV texts
DataCols == Cols \ {"Order_ID"}

\* The data fields of one CSV line, as text.
AllRows ==
  [Delivery_Time : {"90", "120", "130", "N/A", "abc"},
   Agent_Rating : {"4", "5", ""},
   Agent_Age : {"30", ""},
   Weather : {"Sunny", "Stormy", ""},
   Traffic : {"Low", ""},
   Vehicle : {"Bike", "Van", ""},
   Area : {"Urban", "Rural", ""},
   Category : {"Food", "Toys", ""},
   Store_Latitude : {"12", ""},
   Store_Longitude : {"77", ""}]

Base ==
  [Delivery_Time |-> "130", Agent_Rating |-> "4", Agent_Age |-> "30",
   Weather |-> "Sunny", Traffic |-> "Low", Vehicle |-> "Bike", Area |-> "Urban",
   Category |-> "Food", Store_Latitude |-> "12", Store_Longitude |-> "77"]

Deviations(r) == Cardinality({c \in DataCols : r[c] # Base[c]})

\* One-line CSVs: every line that differs from Base in at most two fields.
OneRowPool == {r \in AllRows : Deviations(r) <= 2}

\* Lines of the longer CSVs.
SmallPool ==
  {Base,
   [Base EXCEPT !.Delivery_Time = "90", !.Area = "Rural", !.Vehicle = "Van",
                !.Weather = "Stormy", !.Category = "Toys", !.Store_Latitude = ""],
   [Base EXCEPT !.Delivery_Time = "120", !.Vehicle = "Van", !.Category = "",
                !.Agent_Age = ""],
   [Base EXCEPT !.Delivery_Time = "abc", !.Area = "Rural"],
   [Base EXCEPT !.Delivery_Time = "90", !.Area = "Rural", !.Agent_Rating = "",
                !.Store_Longitude = ""]}

OrderIds == <<"O1", "O2", "O3", "O4">>

WithIds(rows) ==
  [i \in 1..Len(rows) |->
     [c \in Cols |-> IF c = "Order_ID" THEN OrderIds[i] ELSE rows[i][c]]]

Files ==
  {WithIds(<<r>>) : r \in OneRowPool}
    \cup {WithIds(q) : q \in UNION {[1..n -> SmallPool] : n \in 0..MaxRows}}

\* ---------------------------------------------------------------- state
VARIABLES
  disk,              \* 'Last mile Delivery Data.csv': status and text rows
  cache,             \* st.cache_data's entry for load_data(): <<>> or <<table>>
  reads,             \* pd.read_csv calls made so far
  widget,            \* the session's multiselect state: <<>> or <<selection>>
  pc,                \* the script's position in the current run
  message,           \* what st.error showed in this run
  df, df_clean, areas, vehicles, selected_area, selected_vehicle, df_filtered,
  metrics, weather_impact, fig2, fig3, fig4, map_data, raw_view,
  ran,               \* the script's sections executed in this run
  firstRaw,          \* the first successful load_data(): the text read, the table returned
  firstClean         \* df_clean of the first run that derived it

script ==
  <<message, df, df_clean, areas, vehicles, selected_area, selected_vehicle,
    df_filtered, metrics, weather_impact, fig2, fig3, fig4, map_data, raw_view, ran>>

vars == <<disk, cache, reads, widget, pc, firstRaw, firstClean, script>>

\* The script's variables before its first line has run.
Fresh ==
  /\ message' = ""
  /\ df' = <<>>
  /\ df_clean' = <<>>
  /\ areas' = <<>>
  /\ vehicles' = <<>>
  /\ selected_area' = {}
  /\ selected_vehicle' = {}
  /\ df_filtered' = <<>>
  /\ metrics' = NoMetrics
  /\ weather_impact' = <<>>
  /\ fig2' = <<>>
  /\ fig3' = <<>>
  /\ fig4' = <<>>
  /\ map_data' = <<>>
  /\ raw_view' = <<>>
  /\ ran' = {}

Init ==
  /\ disk \in [status : {"ok", "absent", "corrupt"}, rows : Files]
  /\ cache = <<>>
  /\ reads = 0
  /\ widget = <<>>
  /\ pc = "load"
  /\ firstRaw = <<>>
  /\ firstClean = <<>>
  /\ message = ""
  /\ df = <<>>
  /\ df_clean = <<>>
  /\ areas = <<>>
  /\ vehicles = <<>>
  /\ selected_area = {}
  /\ selected_vehicle = {}
  /\ df_filtered = <<>>
  /\ metrics = NoMetrics
  /\ weather_impact = <<>>
  /\ fig2 = <<>>
  /\ fig3 = <<>>
  /\ fig4 = <<>>
  /\ map_data = <<>>
  /\ raw_view = <<>>
  /\ ran = {}

\* -------------------------------------------------------------- helpers
AfterStopContinues(next) == next

\* st.stop(): StopException is not an Exception subclass, the run ends there.
AfterStop(next) == "halted"

SharedAfterCoercion(entry, coerced) == IF entry = <<>> THEN entry ELSE <<coerced>>

\* @st.cache_data hands out a copy of the stored value: assigning to columns of
\* the returned df leaves the stored value as it was.
CachedAfterCoercion(entry, coerced) == entry

FirstOptionOnly(options) == IF options = <<>> THEN {} ELSE {options[1]}

\* multiselect(..., default=options) on the widget's first run.
DefaultSelection(options) == Elems(options)

Remember(first, value) == IF first = <<>> THEN <<value>> ELSE first

\* --------------------------------------------------------------- actions
\* load_data() with an entry in the cache: the function body does not run.
LoadHit ==
  /\ pc = "load"
  /\ cache # <<>>
  /\ df' = cache[1]
  /\ pc' = "clean"
  /\ UNCHANGED <<disk, cache, reads, widget, firstRaw, firstClean, message,
                 df_clean, areas, vehicles, selected_area, selected_vehicle,
                 df_filtered, metrics, weather_impact, fig2, fig3, fig4, map_data,
                 raw_view, ran>>

\* load_data() on a miss, file present and parsable: read, store, return.
LoadMiss ==
  /\ pc = "load"
  /\ cache = <<>>
  /\ disk.status = "ok"
  /\ reads < MaxReads
  /\ reads' = reads + 1
  /\ df' = ReadCsv(disk.rows)
  /\ cache' = <<df'>>
  /\ firstRaw' = Remember(firstRaw, [table |-> df', file |-> disk.rows])
  /\ pc' = "clean"
  /\ UNCHANGED <<disk, widget, firstClean, message, df_clean, areas, vehicles,
                 selected_area, selected_vehicle, df_filtered, metrics,
                 weather_impact, fig2, fig3, fig4, map_data, raw_view, ran>>

\* os.path.exists fails: st.error, st.stop; nothing is stored.
LoadNotFound ==
  /\ pc = "load"
  /\ cache = <<>>
  /\ disk.status = "absent"
  /\ message' = "Error: The file was not found in the directory. Please upload it."
  /\ pc' = AfterStop("clean")
  /\ UNCHANGED <<disk, cache, reads, widget, firstRaw, firstClean, df, df_clean,
                 areas, vehicles, selected_area, selected_vehicle, df_filtered,
                 metrics, weather_impact, fig2, fig3, fig4, map_data, raw_view, ran>>

\* pd.read_csv raises: except Exception, st.error, st.stop; nothing is stored.
LoadError ==
  /\ pc = "load"
  /\ cache = <<>>
  /\ disk.status = "corrupt"
  /\ reads < MaxReads
  /\ reads' = reads + 1
  /\ message' = "Error loading data"
  /\ pc' = AfterStop("clean")
  /\ UNCHANGED <<disk, cache, widget, firstRaw, firstClean, df, df_clean, areas,
                 vehicles, selected_area, selected_vehicle, df_filtered, metrics,
                 weather_impact, fig2, fig3, fig4, map_data, raw_view, ran>>

\* The three pd.to_numeric assignments and df.dropna(subset=...).
Clean ==
  /\ pc = "clean"
  /\ df' = CoerceNumeric(df)
  /\ df_clean' = DropNa(df', RequiredCols)
  /\ cache' = CachedAfterCoercion(cache, df')
  /\ ran' = ran \cup {"clean"}
  /\ pc' = "late"
  /\ UNCHANGED <<disk, reads, widget, firstRaw, firstClean, message, areas,
                 vehicles, selected_area, selected_vehicle, df_filtered, metrics,
                 weather_impact, fig2, fig3, fig4, map_data, raw_view>>

\* df_clean['Is_Late'] = ...
DeriveLate ==
  /\ pc = "late"
  /\ df_clean' = AddIsLate(df_clean)
  /\ firstClean' = Remember(firstClean, df_clean')
  /\ ran' = ran \cup {"late"}
  /\ pc' = "sidebar"
  /\ UNCHANGED <<disk, cache, reads, widget, firstRaw, message, df, areas,
                 vehicles, selected_area, selected_vehicle, df_filtered, metrics,
                 weather_impact, fig2, fig3, fig4, map_data, raw_view>>

\* The two multiselects: the session's selection, or the default on first use.
Sidebar ==
  /\ pc = "sidebar"
  /\ areas' = Sorted(Unique(df_clean, "Area"))
  /\ vehicles' = Sorted(Unique(df_clean, "Vehicle"))
  /\ selected_area' =
       IF widget = <<>> THEN DefaultSelection(areas') ELSE widget[1].area
  /\ selected_vehicle' =
       IF widget = <<>> THEN DefaultSelection(vehicles') ELSE widget[1].vehicle
  /\ widget' = <<[area |-> selected_area', vehicle |-> selected_vehicle']>>
  /\ ran' = ran \cup {"sidebar"}
  /\ pc' = "filter"
  /\ UNCHANGED <<disk, cache, reads, firstRaw, firstClean, message, df, df_clean,
                 df_filtered, metrics, weather_impact, fig2, fig3, fig4, map_data,
                 raw_view>>

\* Apply Filters
Filter ==
  /\ pc = "filter"
  /\ df_filtered' = ApplyFilters(df_clean, selected_area, selected_vehicle)
  /\ ran' = ran \cup {"filter"}
  /\ pc' = "metrics"
  /\ UNCHANGED <<disk, cache, reads, widget, firstRaw, firstClean, message, df,
                 df_clean, areas, vehicles, selected_area, selected_vehicle,
                 metrics, weather_impact, fig2, fig3, fig4, map_data, raw_view>>

\* TOP LEVEL METRICS
Metrics ==
  /\ pc = "metrics"
  /\ metrics' = TopLevelMetrics(df_filtered)
  /\ ran' = ran \cup {"metrics"}
  /\ pc' = "charts"
  /\ UNCHANGED <<disk, cache, reads, widget, firstRaw, firstClean, message, df,
                 df_clean, areas, vehicles, selected_area, selected_vehicle,
                 df_filtered, weather_impact, fig2, fig3, fig4, map_data, raw_view>>

\* Charts 1 to 4
Charts ==
  /\ pc = "charts"
  /\ weather_impact' = WeatherImpact(df_filtered)
  /\ fig2' = PieSlices(df_filtered)
  /\ fig3' = HistogramX(df_filtered)
  /\ fig4' = ScatterPoints(df_filtered)
  /\ ran' = ran \cup {"charts"}
  /\ pc' = "map"
  /\ UNCHANGED <<disk, cache, reads, widget, firstRaw, firstClean, message, df,
                 df_clean, areas, vehicles, selected_area, selected_vehicle,
                 df_filtered, metrics, map_data, raw_view>>

\* Chart 5
Map ==
  /\ pc = "map"
  /\ map_data' = MapData(df_filtered)
  /\ ran' = ran \cup {"map"}
  /\ pc' = "raw"
  /\ UNCHANGED <<disk, cache, reads, widget, firstRaw, firstClean, message, df,
                 df_clean, areas, vehicles, selected_area, selected_vehicle,
                 df_filtered, metrics, weather_impact, fig2, fig3, fig4, raw_view>>

\* RAW DATA VIEW: the script's last statement.
RawView ==
  /\ pc = "raw"
  /\ raw_view' = df_filtered
  /\ ran' = ran \cup {"raw"}
  /\ pc' = "done"
  /\ UNCHANGED <<disk, cache, reads, widget, firstRaw, firstClean, message, df,
                 df_clean, areas, vehicles, selected_area, selected_vehicle,
                 df_filtered, metrics, weather_impact, fig2, fig3, fig4, map_data>>

\* The user changes a multiselect: Streamlit stores the selection and reruns
\* the script from its first line.
Interact ==
  /\ pc = "done"
  /\ \E a \in SUBSET Elems(areas), v \in SUBSET Elems(vehicles) :
       /\ <<a, v>> # <<selected_area, selected_vehicle>>
       /\ widget' = <<[area |-> a, vehicle |-> v]>>
  /\ pc' = "load"
  /\ Fresh
  /\ UNCHANGED <<disk, cache, reads, firstRaw, firstClean>>

\* A rerun of the same session (the widgets keep their state).
Rerun ==
  /\ pc \in {"done", "halted"}
  /\ pc' = "load"
  /\ Fresh
  /\ UNCHANGED <<disk, cache, reads, widget, firstRaw, firstClean>>

\* The page is opened again: a new session of the same process.
NewSession ==
  /\ pc \in {"done", "halted"}
  /\ widget # <<>>
  /\ widget' = <<>>
  /\ pc' = "load"
  /\ Fresh
  /\ UNCHANGED <<disk, cache, reads, firstRaw, firstClean>>

\* Between two runs the file is removed, damaged, restored, or loses its
\* first data line.
DiskChange ==
  /\ pc \in {"done", "halted"}
  /\ \E st \in {"ok", "absent", "corrupt"},
        rows \in {disk.rows} \cup (IF disk.rows = <<>> THEN {} ELSE {Tail(disk.rows)}) :
       /\ disk' = [status |-> st, rows |-> rows]
       /\ disk' # disk
  /\ UNCHANGED <<cache, reads, widget, pc, firstRaw, firstClean, script>>

Next ==
  \/ LoadHit
  \/ LoadMiss
  \/ LoadNotFound
  \/ LoadError
  \/ Clean
  \/ DeriveLate
  \/ Sidebar
  \/ Filter
  \/ Metrics
  \/ Charts
  \/ Map
  \/ RawView
  \/ Interact
  \/ Rerun
  \/ NewSession
  \/ DiskChange

Spec == Init /\ [][Next]_vars

\* ------------------------------------------------- vocabulary of the claims
RECURSIVE PickFrom(_, _, _)
PickFrom(t, S, i) ==
  IF i > Len(t) THEN <<>>
  ELSE (IF i \in S THEN <<t[i]>> ELSE <<>>) \o PickFrom(t, S, i + 1)

\* The rows of t at the positions in S, in t's order.
Pick(t, S) == PickFrom(t, S, 1)

OnCols(r) == [c \in Cols |-> r[c]]

RECURSIVE SumOver(_, _)
SumOver(f, S) ==
  IF S = {} THEN 0
  ELSE LET x == CHOOSE y \in S : TRUE IN f[x] + SumOver(f, S \ {x})

\* Positions of df_clean the current selection keeps.
Selected ==
  {i \in 1..Len(df_clean) :
     /\ selected_area = {} \/ df_clean[i]["Area"].s \in selected_area
     /\ selected_vehicle = {} \/ df_clean[i]["Vehicle"].s \in selected_vehicle}

\* C1: the Filtered Dataset is exactly the rows of the Cleaned Dataset, in
\* order, whose Area is selected (or no Area is selected) and whose Vehicle is
\* selected (or no Vehicle is selected).
C1_FilterExact ==
  "filter" \in ran => df_filtered = Pick(df_clean, Selected)

\* Area = {Urban}, Vehicle = {}: the Urban row stays, the Rural row goes.
C1_Witness ==
  /\ "filter" \in ran
  /\ selected_area = {"Urban"}
  /\ selected_vehicle = {}
  /\ Elems(vehicles) = {"Bike", "Van"}
  /\ Len(df_clean) = 2
  /\ Len(df_filtered) = 1

\* Lines of the CSV text with a numeric Delivery_Time and the four categorical
\* fields filled in.
Valid(file) ==
  {i \in 1..Len(file) :
     /\ file[i]["Delivery_Time"] \in {"90", "120", "130"}
     /\ \A c \in {"Weather", "Traffic", "Vehicle", "Area"} :
          file[i][c] \notin {"", "N/A"}}

\* C2: the Cleaned Dataset is exactly the source rows, in order, whose
\* Delivery_Time is a number and whose Weather, Traffic, Vehicle and Area are
\* present; Agent_Rating and Agent_Age do not decide it, and the categorical
\* fields of a kept row are the source's.
C2_CleanExact ==
  ("clean" \in ran /\ firstRaw # <<>>) =>
    LET file == firstRaw[1].file
        kept == Pick(file, Valid(file))
    IN  /\ Len(df_clean) = Len(kept)
        /\ \A i \in 1..Len(kept) :
             /\ df_clean[i]["Order_ID"].s = kept[i]["Order_ID"]
             /\ df_clean[i]["Delivery_Time"].k = "num"
             /\ \A c \in {"Weather", "Traffic", "Vehicle", "Area"} :
                  df_clean[i][c] = Str(kept[i][c])

\* One row dropped for its Delivery_Time or a missing field, one row kept
\* although its Agent_Rating is absent.
C2_Witness ==
  /\ "clean" \in ran
  /\ firstRaw # <<>>
  /\ Len(firstRaw[1].file) = 2
  /\ Len(df_clean) = 1
  /\ IsNa(df_clean[1]["Agent_Rating"])

\* C3: every row of the Cleaned Dataset gets Is_Late = (Delivery_Time > 120);
\* no row is dropped or moved and no other field changes.
C3_LateExact ==
  "late" \in ran =>
    LET before == DropNa(df, RequiredCols)
    IN  /\ Len(df_clean) = Len(before)
        /\ \A i \in 1..Len(before) :
             /\ OnCols(df_clean[i]) = before[i]
             /\ df_clean[i]["Is_Late"] = Bool(before[i]["Delivery_Time"].n > 120)

\* A duration of exactly 120 is not late, one of 130 is.
C3_Witness ==
  /\ "late" \in ran
  /\ \E i, j \in 1..Len(df_clean) :
       /\ df_clean[i]["Delivery_Time"] = Num(120)
       /\ df_clean[i]["Is_Late"] = Bool(FALSE)
       /\ df_clean[j]["Delivery_Time"] = Num(130)
       /\ df_clean[j]["Is_Late"] = Bool(TRUE)

LateRows(t) == {i \in 1..Len(t) : t[i]["Is_Late"] = Bool(TRUE)}

\* C4: count is the number of rows; latePct is 100 * late / count for
\* count > 0 and 0 for count = 0; on no rows the metrics and their formatting
\* complete (count 0, "0.0%", the means nan) with no error shown; latePct is
\* within 0..100.
C4_Metrics ==
  /\ pc = "metrics" => ENABLED Metrics
  /\ "metrics" \in ran =>
       LET n == Len(df_filtered)
           p == metrics.late_percentage
       IN  /\ metrics.total_orders = n
           /\ p.k = "rat"
           /\ p.den > 0
           /\ p.num * n = 100 * Cardinality(LateRows(df_filtered)) * p.den
           /\ 0 <= p.num /\ p.num <= 100 * p.den
           /\ n = 0 =>
                /\ p.num = 0
                /\ metrics.avg_delivery_time = FNaN
                /\ metrics.avg_rating = FNaN
                /\ metrics.shown[1].value.text = "nan"
                /\ metrics.shown[2].value.text = "nan"
                /\ metrics.shown[3].value = [text |-> "number", tenths |-> 0]
                /\ message = ""
                /\ pc # "halted"

\* Rows exist, the selection keeps none of them, and the run went on to its end.
C4_Witness ==
  /\ pc = "done"
  /\ Len(df_clean) = 2
  /\ Len(df_filtered) = 0
  /\ metrics.total_orders = 0

\* The script's variables are as before its first line ran, but for the message.
NothingComputed ==
  /\ df = <<>>
  /\ df_clean = <<>>
  /\ df_filtered = <<>>
  /\ metrics = NoMetrics
  /\ weather_impact = <<>>
  /\ fig2 = <<>>
  /\ fig3 = <<>>
  /\ fig4 = <<>>
  /\ map_data = <<>>
  /\ raw_view = <<>>
  /\ ran = {}

\* C5 as amended: when load_data finds no memoized table and the file is absent
\* or unparsable, the run halts with a message, nothing memoized, no table and
\* no later section executed; and a halted run stays so until the next run.
C5_LoadFailureHalts ==
  [][/\ (pc = "load" /\ cache = <<>> /\ disk.status # "ok" /\ pc' # pc) =>
          /\ pc' = "halted"
          /\ message' # ""
          /\ cache' = <<>>
          /\ NothingComputed'
     /\ pc = "halted" => (pc' \in {"halted", "load"} /\ (pc' = "halted" => NothingComputed'))
    ]_vars

\* A run halted on an unparsable file, its message on the page.
C5_Witness ==
  /\ pc = "halted"
  /\ disk.status = "corrupt"
  /\ message = "Error loading data"
  /\ NothingComputed

\* C5 as stated: whenever the file is absent or unparsable, loading halts.
C5_Original ==
  [][(pc = "load" /\ disk.status # "ok" /\ pc' # pc) => pc' = "halted"]_vars

\* C6: the counts of the pie's slices add up to the number of rows it was
\* given, rows without a Category included.
C6_PieCountsAll ==
  "charts" \in ran => SumOver(fig2, DOMAIN fig2) = Len(df_filtered)

\* Two rows, one of them without a Category.
C6_Witness ==
  /\ "charts" \in ran
  /\ Len(df_filtered) = 2
  /\ \E i \in 1..2 : IsNa(df_filtered[i]["Category"])
  /\ \E i \in 1..2 : ~IsNa(df_filtered[i]["Category"])

BothPresent(t, c1, c2) == {i \in 1..Len(t) : ~IsNa(t[i][c1]) /\ ~IsNa(t[i][c2])}

C8_MapOnly ==
  pc = "done" =>
    LET all == Pick(df_clean, Selected)
        located == Pick(all, BothPresent(all, "Store_Latitude", "Store_Longitude"))
    IN  /\ map_data =
             [i \in 1..Len(located) |->
                [lat |-> located[i]["Store_Latitude"],
                 lon |-> located[i]["Store_Longitude"]]]
        /\ metrics.total_orders = Len(all)
        /\ {weather_impact[j].Weather : j \in 1..Len(weather_impact)} =
             {all[i]["Weather"].s : i \in 1..Len(all)}
        /\ SumOver(fig2, DOMAIN fig2) = Len(all)
        /\ Len(fig3) = Len(all)
        /\ {fig4[j].Order_ID : j \in 1..Len(fig4)} =
             {all[i]["Order_ID"].s : i \in BothPresent(all, "Agent_Age", "Agent_Rating")}
        /\ raw_view = all

\* Two rows shown, one of them without coordinates and so not on the map.
C8_Witness ==
  /\ pc = "done"
  /\ Len(raw_view) = 2
  /\ Len(map_data) = 1
  /\ Len(fig4) = 2

\* C9 as amended: once a load has succeeded nothing is read again, the stored
\* table stays the one first returned whatever the cleaning step assigns, and
\* every invocation returns it.
C9_LoadOnceStable ==
  [][/\ cache # <<>> => reads' = reads
     /\ cache' # <<>> => (firstRaw' # <<>> /\ cache'[1] = firstRaw'[1].table)
     /\ (pc = "load" /\ pc' = "clean") => df' = firstRaw'[1].table
    ]_vars

\* A later run got the table from the cache after an earlier run's cleaning
\* had coerced its own copy, with coercion changing that table.
C9_Witness ==
  /\ pc = "clean"
  /\ firstClean # <<>>
  /\ reads = 1
  /\ df = firstRaw[1].table
  /\ CoerceNumeric(df) # df

\* C9 as stated: the file is read at most once.
C9_Original == reads <= 1

\* C10: a finished run shows the selection's rows of the Cleaned Dataset and
\* the aggregates of those rows alone, whatever was selected before; the
\* Cleaned Dataset is the first run's; a session starts with every observed
\* Area and Vehicle selected, and with that selection nothing is filtered out.
C10_Recomputed ==
  [][/\ pc' = "done" =>
          LET all == (Pick(df_clean, Selected))'
          IN  /\ df_filtered' = all
              /\ raw_view' = all
              /\ metrics' = TopLevelMetrics(all)
              /\ weather_impact' = WeatherImpact(all)
              /\ fig2' = PieSlices(all)
              /\ fig3' = HistogramX(all)
              /\ fig4' = ScatterPoints(all)
              /\ map_data' = MapData(all)
              /\ df_clean' = firstClean'[1]
              /\ (/\ selected_area' = Unique(df_clean, "Area")'
                  /\ selected_vehicle' = Unique(df_clean, "Vehicle")')
                   => df_filtered' = df_clean'
     /\ (pc = "sidebar" /\ widget = <<>> /\ pc' = "filter") =>
          /\ selected_area' = Unique(df_clean, "Area")
          /\ selected_vehicle' = Unique(df_clean, "Vehicle")
    ]_vars

\* A run finished after the selection was narrowed and the file on disk had
\* changed since the first load.
C10_Witness ==
  /\ pc = "done"
  /\ firstRaw # <<>>
  /\ disk.status = "ok"
  /\ disk.rows # firstRaw[1].file
  /\ selected_area # Elems(areas)
  /\ Len(df_filtered) = 1
  /\ Len(df_clean) = 2

====
